---- MODULE Spec2Model ----
(***************************************************************************)
(* The two search loops of the repository:                                 *)
(*   Auto_Tune.py            hyperparameter_search (cosine annealing)      *)
(*   GPT_Trainer-subword.py  train_model (reduce-on-plateau)               *)
(* Each script is one sequential program; `script` says which one runs.    *)
(* The model, the optimizer and the tensors are opaque: the parameters of  *)
(* a model are identified by the configuration that built it and by the    *)
(* number of optimizer updates applied to it.  Validation losses are       *)
(* finite numbers 1..MaxLoss; float('inf') is Inf.                         *)
(***************************************************************************)
EXTENDS Integers, Sequences, FiniteSets, TLC

VARIABLES
    script,               \* which script runs: "Auto_Tune" or "GPT_Trainer"
    \* ---- Auto_Tune.py, hyperparameter_search and the module level
    at_pc,                \* position in hyperparameter_search
    at_idx,               \* how many combinations itertools.product has yielded
    at_iter,              \* iter of the loop at line 220
    at_best_val_loss,     \* best_val_loss
    at_best_hyperparams,  \* best_hyperparams, <<>> for None
    at_val_loss,          \* val_loss, Undef before the first evaluation
    at_globals,           \* module globals batch_size, dropout, n_embd, n_layer, n_head
    at_model,             \* parameters of the object bound to `model`
    at_mode,              \* model.training: "train" or "eval"
    at_sched_steps,       \* number of scheduler.step() calls on the current scheduler
    at_ops,               \* the calls of the last optimization step, in order
    at_slot,              \* contents of best_model.pt, NoParams when absent
    at_log,               \* the "Evaluating combination" lines, with what became of each
    at_seen,              \* validation losses returned by the evaluations so far
    at_err,               \* the exception that ended the script, "" when none
    at_out,               \* the "Best hyperparameters found" line, <<>> when not printed
    \* ---- GPT_Trainer-subword.py, train_model
    gt_pc,                \* position in train_model
    gt_epochs,            \* the argument epochs
    gt_cfg,               \* how many (lr, optimizer_name) pairs the loops have started
    gt_epoch,             \* epoch
    gt_iteration,         \* iteration
    gt_best_val_loss,     \* best_val_loss
    gt_best_config,       \* best_config, <<>> for None
    gt_plateau_count,     \* plateau_count
    gt_val_loss,          \* val_loss, Undef while unbound
    gt_val_from,          \* <<configuration, epoch>> of the evaluation that bound val_loss
    gt_evlog,             \* per evaluation of this configuration: was it a new best
    gt_model,             \* parameters of the object bound to `model`
    gt_mode,              \* model.training
    gt_sched,             \* the ReduceLROnPlateau object: calls of step and the metric last fed
    gt_ops,               \* the calls of the last optimization step, in order
    gt_files,             \* model_checkpoint_epoch_<e>.pt for each e, NoCheckpoint when absent
    gt_best_slot,         \* the fixed-name best-model file, NoParams when absent
    gt_count,             \* per configuration: epochs started, evaluations, improvements, plateau signals
    gt_log,               \* the "Training with optimizer" lines
    gt_err,               \* the exception that ended the script, "" when none
    gt_out,               \* the "Best configuration found" line, <<>> when not printed
    \* ---- the corpus sampler of both scripts: one call of get_batch(split)
    sm_pc,                \* "chunk", "assemble", "returned" or "raised"
    sm_variant,           \* "char" (Auto_Tune.py) or "subword" (GPT_Trainer-subword.py)
    sm_file,              \* the bytes of the split's file, by kind
    sm_batch_size,        \* the global batch_size
    sm_depth,             \* nested calls of get_random_chunk that are retries
    sm_read,              \* <<start_pos, length asked of mm.read>> of the last read, or <<>>
    sm_data,              \* the token sequence get_random_chunk returned
    sm_ix,                \* the start indices drawn by torch.randint
    sm_x,                 \* the rows of x
    sm_y,                 \* the rows of y
    sm_err                \* the exception the call raised, "" when none

at_vars == <<at_pc, at_idx, at_iter, at_best_val_loss, at_best_hyperparams, at_val_loss,
             at_globals, at_model, at_mode, at_sched_steps, at_ops, at_slot, at_log, at_seen,
             at_err, at_out>>
gt_vars == <<gt_pc, gt_epochs, gt_cfg, gt_epoch, gt_iteration, gt_best_val_loss,
             gt_best_config, gt_plateau_count, gt_val_loss, gt_model, gt_mode, gt_sched,
             gt_ops, gt_val_from, gt_evlog, gt_files, gt_best_slot, gt_count, gt_log,
             gt_err, gt_out>>
sm_vars == <<sm_pc, sm_variant, sm_file, sm_batch_size, sm_depth, sm_read, sm_data, sm_ix,
             sm_x, sm_y, sm_err>>
vars == <<script, at_vars, gt_vars, sm_vars>>

\* ------------------------------------------------------------------ bounds
MaxLoss == 3
MaxEpochs == 2

Losses == 1..MaxLoss
Inf == MaxLoss + 1
Undef == 0
NoParams == [cfg |-> 0, steps |-> 0]

\* =================================================================
\* Auto_Tune.py
\* =================================================================

\* Scaled stand-ins of eval_interval = 500 and max_iters = 3000: the iteration
\* budget is a whole number of evaluation intervals, and iter 0 is evaluated.
at_eval_interval == 2
at_max_iters == 2 * at_eval_interval

\* The candidate lists of hyperparameter_search, cut to their first values
\* (learning rates in units of 1e-5, dropouts in percent).
at_learning_rates == <<1, 10>>
at_batch_sizes == <<16>>
at_dropouts == <<10>>
at_n_embds == <<128, 192>>
at_n_layers == <<6>>
at_n_heads == <<4>>

at_lists == <<at_learning_rates, at_batch_sizes, at_dropouts, at_n_embds, at_n_layers, at_n_heads>>

RECURSIVE at_stride(_)
\* number of combinations that share one value of list d and of the lists before it
at_stride(d) == IF d = Len(at_lists) THEN 1 ELSE Len(at_lists[d + 1]) * at_stride(d + 1)

at_ncombos == Len(at_lists[1]) * at_stride(1)

\* the k-th tuple itertools.product yields (the last list varies fastest)
at_combo(k) == [d \in 1..Len(at_lists) |->
                  at_lists[d][(((k - 1) \div at_stride(d)) % Len(at_lists[d])) + 1]]

\* Variants of the comparison: `<=`, and a comparison that takes every new loss.
AT_ImprovedOrEqual(val_loss, best) == val_loss <= best
AT_ImprovedOrWorse(val_loss, best) == val_loss # best
\* val_loss < best_val_loss
AT_Improved(val_loss, best) == val_loss < best

\* model.train() as estimate_loss returns
AT_ModeAfterEstimate == "train"

\* Variant of the scheduler call: left out of the iteration loop.
AT_SchedulerNotStepped(n) == n
\* scheduler.step() in the iteration loop
AT_SchedulerStep(n) == n + 1

\* the calls of one optimization step of hyperparameter_search, in order
AT_StepCalls ==
    <<"get_batch", "forward", "zero_grad", "backward",
      "clip_grad_norm(max_norm=1.0)", "optimizer_step", "scaler_update",
      "scheduler_step">>

\* where the loop `for iter in range(max_iters)` goes with iter = i
AT_IterPc(i) == IF i >= at_max_iters THEN "loop"
                ELSE IF i % at_eval_interval = 0 THEN "eval" ELSE "step"

AT_Init ==
    /\ at_pc = "loop"
    /\ at_idx = 0
    /\ at_iter = 0
    /\ at_best_val_loss = Inf
    /\ at_best_hyperparams = <<>>
    /\ at_val_loss = Undef
    /\ at_globals = [batch_size |-> 64, dropout |-> 25, n_embd |-> 384, n_layer |-> 8, n_head |-> 8]
    /\ at_model = NoParams
    /\ at_mode = "train"
    /\ at_sched_steps = 0
    /\ at_ops = <<>>
    /\ at_slot = NoParams
    /\ at_log = <<>>
    /\ at_seen = {}
    /\ at_err = ""
    /\ at_out = <<>>

AT_Running == script = "Auto_Tune" /\ at_err = ""

\* The head of the loop over itertools.product: the loop ends, or the next
\* combination is announced, the globals are set, and the VRAM guard either
\* skips it or the model, optimizer, scheduler and scaler are built.
AT_NextCombo ==
    /\ AT_Running /\ at_pc = "loop"
    /\ IF at_idx = at_ncombos
       THEN /\ at_pc' = "report"
            /\ UNCHANGED <<at_idx, at_iter, at_globals, at_model, at_mode, at_sched_steps, at_log>>
       ELSE LET c == at_combo(at_idx + 1) IN
            /\ at_idx' = at_idx + 1
            /\ at_globals' = [batch_size |-> c[2], dropout |-> c[3], n_embd |-> c[4],
                              n_layer |-> c[5], n_head |-> c[6]]
            /\ \E vram_high \in BOOLEAN :
                 IF vram_high
                 THEN /\ at_log' = Append(at_log, [combo |-> c, fate |-> "skipped"])
                      /\ at_pc' = "loop"
                      /\ UNCHANGED <<at_iter, at_model, at_mode, at_sched_steps>>
                 ELSE /\ at_log' = Append(at_log, [combo |-> c, fate |-> "trained"])
                      /\ at_model' = [cfg |-> at_idx + 1, steps |-> 0]
                      /\ at_mode' = "train"
                      /\ at_sched_steps' = 0
                      /\ at_iter' = 0
                      /\ at_pc' = AT_IterPc(0)
    /\ UNCHANGED <<at_best_val_loss, at_best_hyperparams, at_val_loss, at_slot, at_seen,
                   at_ops, at_err, at_out>>

\* iter % eval_interval == 0: estimate_loss(model), then the comparison with
\* best_val_loss and the save of best_model.pt.  A sampler call that raises
\* inside estimate_loss leaves after model.eval() and before model.train().
AT_Evaluate ==
    /\ AT_Running /\ at_pc = "eval"
    /\ \E sampled \in BOOLEAN, v \in Losses :
         IF ~sampled
         THEN /\ at_mode' = "eval"
              /\ at_err' = "SamplerError"
              /\ UNCHANGED <<at_pc, at_val_loss, at_best_val_loss, at_best_hyperparams,
                             at_slot, at_seen>>
         ELSE /\ at_mode' = AT_ModeAfterEstimate
              /\ at_val_loss' = v
              /\ at_seen' = at_seen \cup {v}
              /\ IF AT_Improved(v, at_best_val_loss)
                 THEN /\ at_best_val_loss' = v
                      /\ at_best_hyperparams' = at_combo(at_idx)
                      /\ at_slot' = at_model
                 ELSE UNCHANGED <<at_best_val_loss, at_best_hyperparams, at_slot>>
              /\ at_pc' = "step"
              /\ UNCHANGED at_err
    /\ UNCHANGED <<at_idx, at_iter, at_globals, at_model, at_sched_steps, at_ops, at_log,
                   at_out>>

\* get_batch('train'), forward, zero_grad, backward, clip, scaler.step,
\* scaler.update, scheduler.step(); then the next iter, or the "Finished
\* combination" line when the range is exhausted.
AT_Step ==
    /\ AT_Running /\ at_pc = "step"
    /\ \E sampled \in BOOLEAN :
         IF ~sampled
         THEN /\ at_err' = "SamplerError"
              /\ at_ops' = SubSeq(AT_StepCalls, 1, 1)
              /\ UNCHANGED <<at_pc, at_iter, at_model, at_sched_steps>>
         ELSE /\ at_ops' = AT_StepCalls
              /\ at_model' = [at_model EXCEPT !.steps = @ + 1]
              /\ at_sched_steps' = AT_SchedulerStep(at_sched_steps)
              /\ at_iter' = at_iter + 1
              /\ at_pc' = AT_IterPc(at_iter + 1)
              /\ UNCHANGED at_err
    /\ UNCHANGED <<at_idx, at_best_val_loss, at_best_hyperparams, at_val_loss, at_globals,
                   at_mode, at_slot, at_log, at_seen, at_out>>

\* The last print of hyperparameter_search subscripts best_hyperparams.
AT_Report ==
    /\ AT_Running /\ at_pc = "report"
    /\ IF at_best_hyperparams = <<>>
       THEN /\ at_err' = "TypeError"
            /\ UNCHANGED <<at_pc, at_out>>
       ELSE /\ at_out' = <<at_best_hyperparams, at_best_val_loss>>
            /\ at_pc' = "done"
            /\ UNCHANGED at_err
    /\ UNCHANGED <<at_idx, at_iter, at_best_val_loss, at_best_hyperparams, at_val_loss,
                   at_globals, at_model, at_mode, at_sched_steps, at_ops, at_slot, at_log,
                   at_seen>>

\* load_state_dict accepts the file only for a model of the dimensions of the
\* model that was saved
AT_ShapesMatch(saved, globals) ==
    /\ saved[4] = globals.n_embd
    /\ saved[5] = globals.n_layer
    /\ saved[6] = globals.n_head

\* After hyperparameter_search has returned: GPTLanguageModel(vocab_size) is
\* built from the module globals and best_model.pt is loaded into it.
AT_LoadBest ==
    /\ AT_Running /\ at_pc = "done"
    /\ IF at_slot # NoParams /\ AT_ShapesMatch(at_combo(at_slot.cfg), at_globals)
       THEN at_pc' = "loaded" /\ UNCHANGED at_err
       ELSE at_err' = "RuntimeError" /\ UNCHANGED at_pc
    /\ UNCHANGED <<at_idx, at_iter, at_best_val_loss, at_best_hyperparams, at_val_loss,
                   at_globals, at_model, at_mode, at_sched_steps, at_ops, at_slot, at_log,
                   at_seen, at_out>>

\* =================================================================
\* GPT_Trainer-subword.py
\* =================================================================

\* Scaled stand-ins of eval_interval = 500, eval_iters = 576 and
\* max_iters = 20100: eval_iters exceeds eval_interval, and the iteration budget
\* is a number of evaluation intervals, not below the patience, plus a rest.
gt_eval_interval == 2
gt_eval_iters == 4
gt_max_iters_below_interval == gt_eval_interval - 1
gt_max_iters == 3 * gt_eval_interval + 1

\* patience=5 * eval_interval // eval_iters of the ReduceLROnPlateau scheduler
gt_patience == (5 * gt_eval_interval) \div gt_eval_iters

\* learning_rates (in units of 1e-5) and the keys of optimizer_dict, in order
gt_learning_rates == <<35, 10, 50>>
gt_optimizer_names == <<"AdamW", "LAMB">>

gt_nconfigs == Len(gt_learning_rates) * Len(gt_optimizer_names)

\* the k-th (optimizer_name, lr) of `for lr ...: for optimizer_name ...:`
gt_config(k) ==
    <<gt_optimizer_names[((k - 1) % Len(gt_optimizer_names)) + 1],
      gt_learning_rates[((k - 1) \div Len(gt_optimizer_names)) + 1]>>

NoCheckpoint == [epoch |-> 0, model_state_dict |-> NoParams,
                 optimizer_state_dict |-> NoParams, val_loss |-> Undef]
NewCount == [epochs |-> 0, evals |-> 0, improved |-> 0, signals |-> 0]
NewScheduler == [steps |-> 0, last |-> Undef]

\* Variant of the comparison: `<=`.
GT_ImprovedOrEqual(val_loss, best) == val_loss <= best
\* val_loss < best_val_loss
GT_Improved(val_loss, best) == val_loss < best

\* Variant of the test in the iteration loop: one evaluation late.
GT_PlateauBreakLate(count) == count > gt_patience
\* plateau_count >= scheduler.patience, in the iteration loop
GT_PlateauBreak(count) == count >= gt_patience

\* Variant of the test after the checkpoint: the epoch loop goes on.
GT_EpochBreakMissing(count) == FALSE
\* plateau_count >= scheduler.patience, after the checkpoint of the epoch
GT_EpochBreak(count) == count >= gt_patience

\* model.training as evaluate_model returns: model.eval() is never undone there
GT_ModeAfterEvaluate == "eval"

\* scheduler.step(val_loss)
GT_SchedulerStep(sched, val_loss) == [steps |-> sched.steps + 1, last |-> val_loss]

\* the calls of one optimization step of train_model, in order
GT_StepCalls ==
    <<"zero_grad", "get_batch", "forward", "backward", "optimizer_step", "scaler_update">>

\* the file name f'model_checkpoint_epoch_{epoch}.pt' of save_checkpoint
GT_CheckpointKey(cfg, epoch) == epoch

\* save_checkpoint(model, optimizer, epoch, val_loss)
GT_SaveCheckpoint(files, cfg, model, epoch, val_loss) ==
    [files EXCEPT ![GT_CheckpointKey(cfg, epoch)] =
        [epoch |-> epoch, model_state_dict |-> model,
         optimizer_state_dict |-> model, val_loss |-> val_loss]]

GT_Init ==
    /\ gt_pc = "config"
    /\ gt_cfg = 0
    /\ gt_epoch = 0
    /\ gt_iteration = 0
    /\ gt_best_val_loss = Inf
    /\ gt_best_config = <<>>
    /\ gt_plateau_count = 0
    /\ gt_val_loss = Undef
    /\ gt_val_from = <<>>
    /\ gt_evlog = <<>>
    /\ gt_model = NoParams
    /\ gt_mode = "train"
    /\ gt_sched = NewScheduler
    /\ gt_ops = <<>>
    /\ gt_files = [e \in 1..MaxEpochs |-> NoCheckpoint]
    /\ gt_best_slot = NoParams
    /\ gt_count = NewCount
    /\ gt_log = <<>>
    /\ gt_err = ""
    /\ gt_out = <<>>

GT_Running == script = "GPT_Trainer" /\ gt_err = ""

\* The head of the two configuration loops: they end, or the next model,
\* optimizer, scheduler and scaler are built and plateau_count is zeroed; then
\* the head of `for epoch in range(1, epochs + 1)`.
GT_NextConfig ==
    /\ GT_Running /\ gt_pc = "config"
    /\ IF gt_cfg = gt_nconfigs
       THEN /\ gt_pc' = "report"
            /\ UNCHANGED <<gt_cfg, gt_epoch, gt_plateau_count, gt_model, gt_mode, gt_sched,
                           gt_count, gt_evlog, gt_log>>
       ELSE /\ gt_cfg' = gt_cfg + 1
            /\ gt_model' = [cfg |-> gt_cfg + 1, steps |-> 0]
            /\ gt_mode' = "train"
            /\ gt_sched' = NewScheduler
            /\ gt_plateau_count' = 0
            /\ gt_count' = NewCount
            /\ gt_evlog' = <<>>
            /\ gt_log' = Append(gt_log, gt_config(gt_cfg + 1))
            /\ IF gt_epochs >= 1
               THEN gt_epoch' = 1 /\ gt_pc' = "epoch"
               ELSE gt_pc' = "config" /\ UNCHANGED gt_epoch
    /\ UNCHANGED <<gt_epochs, gt_iteration, gt_best_val_loss, gt_best_config, gt_val_loss,
                   gt_val_from, gt_ops, gt_files, gt_best_slot, gt_err, gt_out>>

\* model.train(); total_loss = 0.0; the head of the iteration loop
GT_EpochStart ==
    /\ GT_Running /\ gt_pc = "epoch"
    /\ gt_mode' = "train"
    /\ gt_count' = [gt_count EXCEPT !.epochs = @ + 1]
    /\ gt_iteration' = 1
    /\ gt_pc' = IF gt_max_iters >= 1 THEN "step" ELSE "epoch_end"
    /\ UNCHANGED <<gt_epochs, gt_cfg, gt_epoch, gt_best_val_loss, gt_best_config,
                   gt_plateau_count, gt_val_loss, gt_val_from, gt_evlog, gt_ops, gt_model,
                   gt_sched, gt_files, gt_best_slot, gt_log, gt_err, gt_out>>

\* where the iteration loop goes after the body of iteration `it`
GT_AfterIteration(it) == IF it = gt_max_iters THEN "epoch_end" ELSE "step"

\* zero_grad, get_batch('train'), forward, backward, scaler.step, scaler.update
GT_Step ==
    /\ GT_Running /\ gt_pc = "step"
    /\ \E sampled \in BOOLEAN :
         IF ~sampled
         THEN /\ gt_err' = "SamplerError"
              /\ gt_ops' = SubSeq(GT_StepCalls, 1, 2)
              /\ UNCHANGED <<gt_pc, gt_iteration, gt_model>>
         ELSE /\ gt_ops' = GT_StepCalls
              /\ gt_model' = [gt_model EXCEPT !.steps = @ + 1]
              /\ IF gt_iteration % gt_eval_interval = 0
                 THEN gt_pc' = "eval" /\ UNCHANGED gt_iteration
                 ELSE /\ gt_pc' = GT_AfterIteration(gt_iteration)
                      /\ gt_iteration' = IF gt_iteration = gt_max_iters
                                         THEN gt_iteration ELSE gt_iteration + 1
              /\ UNCHANGED gt_err
    /\ UNCHANGED <<gt_epochs, gt_cfg, gt_epoch, gt_best_val_loss, gt_best_config,
                   gt_plateau_count, gt_val_loss, gt_val_from, gt_evlog, gt_mode, gt_sched,
                   gt_files, gt_best_slot, gt_count, gt_log, gt_out>>

\* iteration % eval_interval == 0: evaluate_model(model), the comparison with
\* best_val_loss, the plateau count and the break of the iteration loop.
GT_Evaluate ==
    /\ GT_Running /\ gt_pc = "eval"
    /\ \E sampled \in BOOLEAN, v \in Losses :
         IF ~sampled
         THEN /\ gt_mode' = "eval"
              /\ gt_err' = "SamplerError"
              /\ UNCHANGED <<gt_pc, gt_iteration, gt_val_loss, gt_val_from, gt_evlog,
                             gt_best_val_loss, gt_best_config, gt_plateau_count, gt_count>>
         ELSE /\ gt_mode' = GT_ModeAfterEvaluate
              /\ gt_val_loss' = v
              /\ gt_val_from' = <<gt_cfg, gt_epoch>>
              /\ gt_evlog' = Append(gt_evlog, v < gt_best_val_loss)
              /\ UNCHANGED gt_err
              /\ IF GT_Improved(v, gt_best_val_loss)
                 THEN /\ gt_best_val_loss' = v
                      /\ gt_best_config' = gt_config(gt_cfg)
                      /\ gt_plateau_count' = 0
                      /\ gt_count' = [gt_count EXCEPT !.evals = @ + 1, !.improved = @ + 1]
                      /\ gt_pc' = GT_AfterIteration(gt_iteration)
                      /\ gt_iteration' = IF gt_iteration = gt_max_iters
                                         THEN gt_iteration ELSE gt_iteration + 1
                 ELSE /\ gt_plateau_count' = gt_plateau_count + 1
                      /\ UNCHANGED <<gt_best_val_loss, gt_best_config>>
                      /\ IF GT_PlateauBreak(gt_plateau_count + 1)
                         THEN /\ gt_count' = [gt_count EXCEPT !.evals = @ + 1,
                                                              !.signals = @ + 1]
                              /\ gt_pc' = "epoch_end"
                              /\ UNCHANGED gt_iteration
                         ELSE /\ gt_count' = [gt_count EXCEPT !.evals = @ + 1]
                              /\ gt_pc' = GT_AfterIteration(gt_iteration)
                              /\ gt_iteration' = IF gt_iteration = gt_max_iters
                                                 THEN gt_iteration ELSE gt_iteration + 1
    /\ UNCHANGED <<gt_epochs, gt_cfg, gt_epoch, gt_model, gt_sched, gt_ops, gt_files,
                   gt_best_slot, gt_log, gt_out>>

\* After the iteration loop: scheduler.step(val_loss), save_checkpoint, and the
\* second plateau test, which leaves the epoch loop.
GT_EpochEnd ==
    /\ GT_Running /\ gt_pc = "epoch_end"
    /\ IF gt_val_loss = Undef
       THEN /\ gt_err' = "UnboundLocalError"
            /\ UNCHANGED <<gt_pc, gt_epoch, gt_sched, gt_files>>
       ELSE /\ gt_sched' = GT_SchedulerStep(gt_sched, gt_val_loss)
            /\ gt_files' = GT_SaveCheckpoint(gt_files, gt_cfg, gt_model, gt_epoch, gt_val_loss)
            /\ IF GT_EpochBreak(gt_plateau_count) \/ gt_epoch = gt_epochs
               THEN gt_pc' = "config" /\ UNCHANGED gt_epoch
               ELSE gt_pc' = "epoch" /\ gt_epoch' = gt_epoch + 1
            /\ UNCHANGED gt_err
    /\ UNCHANGED <<gt_epochs, gt_cfg, gt_iteration, gt_best_val_loss, gt_best_config,
                   gt_plateau_count, gt_val_loss, gt_val_from, gt_evlog, gt_ops, gt_model,
                   gt_mode, gt_best_slot,
                   gt_count, gt_log, gt_out>>

\* The last print of train_model subscripts best_config.
GT_Report ==
    /\ GT_Running /\ gt_pc = "report"
    /\ IF gt_best_config = <<>>
       THEN /\ gt_err' = "TypeError"
            /\ UNCHANGED <<gt_pc, gt_out>>
       ELSE /\ gt_out' = <<gt_best_config, gt_best_val_loss>>
            /\ gt_pc' = "done"
            /\ UNCHANGED gt_err
    /\ UNCHANGED <<gt_epochs, gt_cfg, gt_epoch, gt_iteration, gt_best_val_loss,
                   gt_best_config, gt_plateau_count, gt_val_loss, gt_model, gt_mode,
                   gt_sched, gt_ops, gt_val_from, gt_evlog, gt_files, gt_best_slot, gt_count,
                   gt_log>>

\* =================================================================
\* The corpus sampler: get_random_chunk and get_batch of both scripts
\* =================================================================

\* Bounds of the sampler's inputs.  sm_block_size, sm_trunc_len and
\* sm_recursion_limit are scaled stand-ins of block_size = 128, of the 1024
\* characters kept by decoded_block[:1024] and of the interpreter's recursion
\* limit.
MaxFile == 6
MaxBatch == 3
sm_block_size == 2
sm_trunc_len == 3
sm_recursion_limit == 3

\* A byte of the file is a character ("c"), a character that the subword
\* tokenizer merges into the token before it ("m"), or a byte that decoding
\* drops: an invalid byte or a carriage return ("x").  A token is named by the
\* position of its first byte in the file, so all tokens of a file differ.
ByteKinds == {"c", "m", "x"}

\* seq[a:b] of Python, a >= 0: the members with 0-based index in [a, b), clipped
Slice(seq, a, b) ==
    LET hi == IF b < Len(seq) THEN b ELSE Len(seq) IN
    IF a >= hi THEN <<>> ELSE SubSeq(seq, a + 1, hi)

\* Variant of the upper bound of start_pos: the batch size forgotten.
SM_MaxStartOneBlock(file_size, batch_size) == file_size - sm_block_size
\* the upper bound file_size - block_size * batch_size of random.randint
SM_MaxStart(file_size, batch_size) == file_size - sm_block_size * batch_size

\* the length block_size * batch_size - 1 asked of mm.read
SM_ReadLen(batch_size) == sm_block_size * batch_size - 1

\* mm.seek(start); mm.read(n): the positions read, clipped at the end of the file
SM_Read(file, start, n) ==
    LET last == IF start + n < Len(file) THEN start + n ELSE Len(file)
    IN  [i \in 1..(last - start) |-> start + i]

\* block.decode('utf-8', errors='ignore').replace('\r', ''): the characters left
SM_Decode(file, positions) ==
    LET IsChar(p) == file[p] # "x" IN SelectSeq(positions, IsChar)

\* encode(decoded_block) of Auto_Tune.py: one token per character
SM_EncodeChars(file, chars) == chars

\* encode_text(decoded_block[:1024], tokenizer): the text is cut, and a token
\* starts at its first character and at every character that is not merged
SM_EncodeSubwords(file, chars) ==
    LET text == Slice(chars, 0, sm_trunc_len)
        Starts(p) == file[p] = "c" \/ p = text[1]
    IN  SelectSeq(text, Starts)

\* Variant of the bound of the start indices: one past the last full window.
SM_IndexHighOneMore(len) == len - sm_block_size + 1
\* the exclusive upper bound len(data) - block_size of torch.randint
SM_IndexHigh(len) == len - sm_block_size

\* the rows data[i:i + block_size] for i in ix
SM_Inputs(data, ix) == [r \in 1..Len(ix) |-> Slice(data, ix[r], ix[r] + sm_block_size)]
\* the rows data[i + 1:i + block_size + 1] for i in ix
SM_Targets(data, ix) == [r \in 1..Len(ix) |-> Slice(data, ix[r] + 1, ix[r] + sm_block_size + 1)]

\* torch.stack accepts rows of one length only
SM_Stackable(rows) == \A r, q \in 1..Len(rows) : Len(rows[r]) = Len(rows[q])

SM_Idle ==
    /\ sm_pc = "idle"
    /\ sm_variant = "char"
    /\ sm_file = <<>>
    /\ sm_batch_size = 1
    /\ sm_depth = 0
    /\ sm_read = <<>>
    /\ sm_data = <<>>
    /\ sm_ix = <<>>
    /\ sm_x = <<>>
    /\ sm_y = <<>>
    /\ sm_err = ""

SM_Init ==
    /\ sm_pc = "chunk"
    /\ sm_variant \in {"char", "subword"}
    /\ \E n \in 0..MaxFile : sm_file \in [1..n -> ByteKinds]
    /\ sm_batch_size \in 1..MaxBatch
    /\ sm_depth = 0
    /\ sm_read = <<>>
    /\ sm_data = <<>>
    /\ sm_ix = <<>>
    /\ sm_x = <<>>
    /\ sm_y = <<>>
    /\ sm_err = ""

\* One call of get_random_chunk(split), the first or a retry.  mmap refuses an
\* empty file and random.randint an empty range.  The subword variant calls
\* itself again when the tokens are not more than block_size; at the recursion
\* limit (or when the files opened by the nested calls run out) that call
\* raises.
SM_GetRandomChunk ==
    /\ script = "Sampler" /\ sm_pc = "chunk"
    /\ IF Len(sm_file) = 0 \/ SM_MaxStart(Len(sm_file), sm_batch_size) < 0
       THEN /\ sm_err' = "ValueError"
            /\ sm_pc' = "raised"
            /\ UNCHANGED <<sm_read, sm_data, sm_depth>>
       ELSE \E start \in 0..SM_MaxStart(Len(sm_file), sm_batch_size) :
            LET chars == SM_Decode(sm_file, SM_Read(sm_file, start, SM_ReadLen(sm_batch_size)))
                tokens == IF sm_variant = "char" THEN SM_EncodeChars(sm_file, chars)
                          ELSE SM_EncodeSubwords(sm_file, chars)
            IN  /\ sm_read' = <<start, SM_ReadLen(sm_batch_size)>>
                /\ IF sm_variant = "char" \/ Len(tokens) > sm_block_size
                   THEN /\ sm_data' = tokens
                        /\ sm_pc' = "assemble"
                        /\ UNCHANGED <<sm_depth, sm_err>>
                   ELSE IF sm_depth + 1 < sm_recursion_limit
                   THEN /\ sm_depth' = sm_depth + 1
                        /\ UNCHANGED <<sm_pc, sm_data, sm_err>>
                   ELSE /\ sm_err' \in {"RecursionError", "OSError"}
                        /\ sm_pc' = "raised"
                        /\ UNCHANGED <<sm_depth, sm_data>>
    /\ UNCHANGED <<sm_variant, sm_file, sm_batch_size, sm_ix, sm_x, sm_y>>

\* The rest of get_batch(split): the length test of the subword variant, the
\* draw of batch_size start indices, the two stacks of rows.
SM_GetBatch ==
    /\ script = "Sampler" /\ sm_pc = "assemble"
    /\ IF sm_variant = "subword" /\ Len(sm_data) <= sm_block_size
       THEN /\ sm_err' = "ValueError"
            /\ sm_pc' = "raised"
            /\ UNCHANGED <<sm_ix, sm_x, sm_y>>
       ELSE IF SM_IndexHigh(Len(sm_data)) <= 0
       THEN /\ sm_err' = "RuntimeError"
            /\ sm_pc' = "raised"
            /\ UNCHANGED <<sm_ix, sm_x, sm_y>>
       ELSE \E ix \in [1..sm_batch_size -> 0..(SM_IndexHigh(Len(sm_data)) - 1)] :
            /\ sm_ix' = ix
            /\ IF SM_Stackable(SM_Inputs(sm_data, ix)) /\ SM_Stackable(SM_Targets(sm_data, ix))
               THEN /\ sm_x' = SM_Inputs(sm_data, ix)
                    /\ sm_y' = SM_Targets(sm_data, ix)
                    /\ sm_pc' = "returned"
                    /\ UNCHANGED sm_err
               ELSE /\ sm_err' = "RuntimeError"
                    /\ sm_pc' = "raised"
                    /\ UNCHANGED <<sm_x, sm_y>>
    /\ UNCHANGED <<sm_variant, sm_file, sm_batch_size, sm_depth, sm_read, sm_data>>

\* =================================================================
\* The specification
\* =================================================================

Init ==
    /\ script \in {"Auto_Tune", "GPT_Trainer"}
    /\ AT_Init
    /\ GT_Init
    /\ gt_epochs \in IF script = "GPT_Trainer" THEN 0..MaxEpochs ELSE {0}
    /\ SM_Idle

Next ==
    \/ AT_NextCombo /\ UNCHANGED <<script, gt_vars, sm_vars>>
    \/ AT_Evaluate /\ UNCHANGED <<script, gt_vars, sm_vars>>
    \/ AT_Step /\ UNCHANGED <<script, gt_vars, sm_vars>>
    \/ AT_Report /\ UNCHANGED <<script, gt_vars, sm_vars>>
    \/ AT_LoadBest /\ UNCHANGED <<script, gt_vars, sm_vars>>
    \/ GT_NextConfig /\ UNCHANGED <<script, at_vars, sm_vars>>
    \/ GT_EpochStart /\ UNCHANGED <<script, at_vars, sm_vars>>
    \/ GT_Step /\ UNCHANGED <<script, at_vars, sm_vars>>
    \/ GT_Evaluate /\ UNCHANGED <<script, at_vars, sm_vars>>
    \/ GT_EpochEnd /\ UNCHANGED <<script, at_vars, sm_vars>>
    \/ GT_Report /\ UNCHANGED <<script, at_vars, sm_vars>>

Spec == Init /\ [][Next]_vars

\* One call of get_batch on a file, a batch size and a variant drawn at the start.
SamplerInit ==
    /\ script = "Sampler"
    /\ AT_Init
    /\ GT_Init
    /\ gt_epochs = 0
    /\ SM_Init

SamplerNext ==
    \/ SM_GetRandomChunk /\ UNCHANGED <<script, at_vars, gt_vars>>
    \/ SM_GetBatch /\ UNCHANGED <<script, at_vars, gt_vars>>

SamplerSpec == SamplerInit /\ [][SamplerNext]_vars

\* =================================================================
\* Properties
\* =================================================================

\* an optimizer update of the model bound to `model`
AT_Updated == at_model'.cfg = at_model.cfg /\ at_model'.steps # at_model.steps
GT_Updated == gt_model'.cfg = gt_model.cfg /\ gt_model'.steps # gt_model.steps

\* C1: in both search loops best_val_loss never rises: every step of the search,
\* the start of a new configuration included, leaves it equal or lower.
C1_BestNeverRises ==
    [][/\ at_best_val_loss' <= at_best_val_loss
       /\ gt_best_val_loss' <= gt_best_val_loss]_vars

\* A later configuration of train_model has lowered the best loss left by an
\* earlier one.
C1_Witness ==
    /\ gt_cfg >= 2
    /\ gt_best_config = gt_config(gt_cfg)
    /\ gt_best_val_loss < MaxLoss

\* C2: in hyperparameter_search best_model.pt changes only at an evaluation
\* whose validation loss is strictly lower than every loss of every earlier
\* evaluation; an equal or higher loss leaves the file alone.
C2_SlotWrittenOnlyOnStrictlyLower ==
    [][at_slot' # at_slot =>
         /\ at_val_loss' \in Losses
         /\ \A w \in at_seen : at_val_loss' < w]_vars

\* A later combination was evaluated with a loss equal to the best one, and
\* best_model.pt still holds the earlier combination's parameters.
C2_Witness ==
    /\ at_pc = "step"
    /\ at_model.cfg = at_idx
    /\ at_val_loss = at_best_val_loss
    /\ at_slot.cfg # 0
    /\ at_slot.cfg < at_idx

\* C3: in both search loops every improvement of the best record writes the
\* current model's parameters to the best-model slot, so the slot holds the
\* parameters of the configuration recorded as best.
C3_ImprovementPersistsModel ==
    [][/\ at_best_val_loss' # at_best_val_loss => at_slot' = at_model'
       /\ gt_best_val_loss' # gt_best_val_loss => gt_best_slot' = gt_model']_vars

\* C4: in train_model, once plateau_count has reached the patience, the
\* configuration gets no further optimizer update, evaluation or epoch, and
\* after the checkpoint of the epoch the search is at the head of the
\* configuration loops.
C4_NoWorkAfterExhaustion ==
    [][gt_plateau_count >= gt_patience =>
         /\ gt_cfg' = gt_cfg =>
              /\ gt_model' = gt_model
              /\ gt_count' = gt_count
              /\ gt_epoch' = gt_epoch
         /\ gt_pc = "epoch_end" /\ gt_err' = "" => gt_pc' = "config"
         /\ gt_pc = "config" /\ gt_cfg < gt_nconfigs => gt_cfg' = gt_cfg + 1]_vars

\* A configuration was abandoned on plateau with iterations and epochs of its
\* budget left, and another configuration remains.
C4_Witness ==
    /\ gt_pc = "config"
    /\ gt_plateau_count >= gt_patience
    /\ gt_iteration < gt_max_iters
    /\ gt_epoch < gt_epochs
    /\ gt_cfg < gt_nconfigs

\* C5: in train_model a configuration none of whose evaluations improved has
\* signalled exhaustion once if it has made patience evaluations and not at all
\* before; it never makes more than patience evaluations.
C5_ExhaustedOnceAtPatience ==
    (gt_cfg > 0 /\ gt_count.improved = 0) =>
        /\ gt_count.evals <= gt_patience
        /\ gt_count.signals = IF gt_count.evals = gt_patience THEN 1 ELSE 0

\* A configuration without any improvement has made its patience-th evaluation.
C5_Witness ==
    /\ gt_cfg > 0
    /\ gt_count.improved = 0
    /\ gt_count.evals = gt_patience
    /\ gt_count.signals = 1

\* C6: a search that ends with no recorded best (best_hyperparams or
\* best_config still None when the loops are over) fails with NoResultError and
\* with no other error.
C6_NoResultError ==
    /\ (at_pc = "report" /\ at_best_hyperparams = <<>> /\ at_err # "")
           => at_err = "NoResultError"
    /\ (gt_pc = "report" /\ gt_best_config = <<>> /\ gt_err # "")
           => gt_err = "NoResultError"
    /\ gt_err # "UnboundLocalError"

\* C7: every optimizer update of both training loops is applied with the model
\* in training mode, the updates that follow an evaluation in the same epoch
\* included.
C7_UpdatesRunInTrainingMode ==
    [][/\ AT_Updated => at_mode = "train"
       /\ GT_Updated => gt_mode = "train"]_vars

\* the combinations announced so far, in order
AT_Announced == [i \in 1..Len(at_log) |-> at_log[i].combo]

\* C8: when the loops are over every combination has been visited once, in
\* product order; a skipped combination built no model and a trained one got
\* its budget of optimizer updates (max_iters, at most epochs * max_iters in
\* train_model); and unless a sampler call raised, the script is not ended by
\* an error and its last line reports a best configuration.
C8_VisitsAllAndReports ==
    /\ at_pc \in {"report", "done", "loaded"} =>
           AT_Announced = [k \in 1..at_ncombos |-> at_combo(k)]
    /\ (at_pc = "loop" /\ at_idx > 0) =>
           IF at_log[at_idx].fate = "skipped"
           THEN at_model.cfg # at_idx
           ELSE at_model = [cfg |-> at_idx, steps |-> at_max_iters]
    /\ at_err \in {"", "SamplerError"}
    /\ at_pc \in {"done", "loaded"} => at_out # <<>> /\ at_out[1] # <<>>
    /\ gt_pc \in {"report", "done"} =>
           gt_log = [k \in 1..gt_nconfigs |-> gt_config(k)]
    /\ gt_model.steps <= gt_epochs * gt_max_iters
    /\ gt_err \in {"", "SamplerError"}
    /\ gt_pc = "done" => gt_out # <<>> /\ gt_out[1] # <<>>

\* C9: a checkpoint file that exists is never replaced by a save made for
\* another configuration than the one that wrote it.
C9_CheckpointsKeptPerConfiguration ==
    [][\A e \in DOMAIN gt_files :
         (gt_files[e] # NoCheckpoint /\ gt_files'[e] # gt_files[e])
             => gt_files[e].model_state_dict.cfg = gt_cfg]_vars

\* C10, as claimed: a combination of hyperparameter_search that ran its whole
\* iteration budget has stepped its scheduler once, and a configuration of
\* train_model has stepped its scheduler once per evaluation.
C10_OncePerPassOncePerEvaluation ==
    /\ (at_pc = "loop" /\ at_idx > 0 /\ at_model.cfg = at_idx) => at_sched_steps = 1
    /\ (gt_pc = "config" /\ gt_cfg > 0) => gt_sched.steps = gt_count.evals

\* C10, amended: in hyperparameter_search the scheduler is stepped with every
\* optimizer update, max_iters times for a combination that ran its budget; in
\* train_model it is stepped once per epoch, after the iteration loop, with
\* the validation loss computed last.
C10_OncePerUpdateOncePerEpoch ==
    /\ at_sched_steps = at_model.steps
    /\ (at_pc = "loop" /\ at_idx > 0 /\ at_model.cfg = at_idx) => at_sched_steps = at_max_iters
    /\ gt_sched.steps = IF gt_pc \in {"step", "eval", "epoch_end"}
                        THEN gt_count.epochs - 1 ELSE gt_count.epochs
    /\ (gt_pc \in {"config", "epoch"} /\ gt_sched.steps > 0) => gt_sched.last = gt_val_loss

\* A configuration of train_model is over after one epoch with several
\* evaluations and a single scheduler step.
C10_Witness ==
    /\ gt_pc = "config"
    /\ gt_cfg > 0
    /\ gt_sched.steps = 1
    /\ gt_count.evals > 1
    /\ gt_sched.last = gt_val_loss

\* position of `call` among the calls of a step, 0 when it is not made
CallPos(calls, call) ==
    IF \E i \in 1..Len(calls) : calls[i] = call
    THEN CHOOSE i \in 1..Len(calls) : calls[i] = call
    ELSE 0

\* the calls of a step that updated the parameters are prior gradients cleared,
\* backward pass, clipping to norm 1.0, optimizer update, in this order
ClippedBeforeUpdate(calls) ==
    CallPos(calls, "optimizer_step") > 0 =>
        /\ 0 < CallPos(calls, "zero_grad")
        /\ CallPos(calls, "zero_grad") < CallPos(calls, "backward")
        /\ CallPos(calls, "backward") < CallPos(calls, "clip_grad_norm(max_norm=1.0)")
        /\ CallPos(calls, "clip_grad_norm(max_norm=1.0)") < CallPos(calls, "optimizer_step")

\* C11: in every optimization step of both training loops the gradients are
\* cleared, then the backward pass runs, then the gradient norm is clipped to
\* 1.0, then the optimizer is updated: no update without clipping in that step.
C11_ClipBeforeEveryUpdate ==
    ClippedBeforeUpdate(at_ops) /\ ClippedBeforeUpdate(gt_ops)

\* C12: a batch that get_batch returns has batch_size rows of x and of y, each
\* of exactly block_size tokens; y is x shifted by one, its last token the one
\* that follows the window in the sampled sequence; and for every index drawn
\* i + block_size is a valid index of that sequence.
C12_BatchIsShiftedWindows ==
    sm_pc = "returned" =>
        /\ Len(sm_x) = sm_batch_size
        /\ Len(sm_y) = sm_batch_size
        /\ \A r \in 1..sm_batch_size :
             /\ sm_ix[r] >= 0
             /\ sm_ix[r] + sm_block_size < Len(sm_data)
             /\ Len(sm_x[r]) = sm_block_size
             /\ Len(sm_y[r]) = sm_block_size
             /\ \A t \in 1..(sm_block_size - 1) : sm_y[r][t] = sm_x[r][t + 1]
             /\ \A t \in 1..sm_block_size : sm_x[r][t] = sm_data[sm_ix[r] + t]
             /\ sm_y[r][sm_block_size] = sm_data[sm_ix[r] + sm_block_size + 1]

\* A batch of several rows was returned, one row being the first window of the
\* sampled sequence and one the last, whose final target is the last token.
C12_Witness ==
    /\ sm_pc = "returned"
    /\ sm_batch_size >= 2
    /\ Len(sm_data) > sm_block_size + 1
    /\ \E r \in 1..sm_batch_size : sm_ix[r] = 0
    /\ \E r \in 1..sm_batch_size : sm_ix[r] + sm_block_size + 1 = Len(sm_data)

\* C13: every read of get_random_chunk starts at an offset in
\* [0, file_size - block_size * batch_size] and asks for
\* block_size * batch_size - 1 bytes, all of them inside the file.
C13_ReadInsideFile ==
    sm_read # <<>> =>
        /\ 0 <= sm_read[1]
        /\ sm_read[1] <= Len(sm_file) - sm_block_size * sm_batch_size
        /\ sm_read[2] = sm_block_size * sm_batch_size - 1
        /\ sm_read[1] + sm_read[2] <= Len(sm_file)

\* A read started at the largest offset allowed, in a file larger than one
\* window and with a batch size above 1.
C13_Witness ==
    /\ sm_read # <<>>
    /\ sm_batch_size >= 2
    /\ sm_read[1] > 0
    /\ sm_read[1] = Len(sm_file) - sm_block_size * sm_batch_size

\* C14: a draw from a file smaller than block_size * batch_size, or whose
\* sampled sequence is not longer than block_size, fails at once with
\* InsufficientDataError and returns no batch.
C14_FailsWithInsufficientDataError ==
    /\ sm_pc = "raised" => sm_err = "InsufficientDataError"
    /\ sm_depth = 0
    /\ sm_pc = "returned" =>
           /\ Len(sm_file) >= sm_block_size * sm_batch_size
           /\ Len(sm_data) > sm_block_size

\* C15: a call of the subword get_random_chunk that has read the file ends by
\* returning more than block_size tokens or by raising EncodingRetryExhausted.
C15_RetriesEndInTypedFailure ==
    (sm_variant = "subword" /\ sm_read # <<>>) =>
        /\ sm_pc = "raised" => sm_err = "EncodingRetryExhausted"
        /\ sm_pc \in {"assemble", "returned"} => Len(sm_data) > sm_block_size

\* C16: when a sampler call or forward pass fails inside estimate_loss or
\* evaluate_model, the model is in training mode as the error leaves the call.
C16_ModeRestoredOnFailure ==
    /\ (at_pc = "eval" /\ at_err # "") => at_mode = "train"
    /\ (gt_pc = "eval" /\ gt_err # "") => gt_mode = "train"

\* C17: a sampler failure while a configuration is trained or evaluated leaves
\* best loss, best configuration and best-model slot as they were, and does
\* not end the script: the search goes on with the remaining configurations.
C17_FailureIsIsolated ==
    [][/\ at_err' = "SamplerError" =>
            /\ <<at_best_val_loss, at_best_hyperparams, at_slot>>' =
                   <<at_best_val_loss, at_best_hyperparams, at_slot>>
            /\ at_err = "SamplerError" \/ at_pc' = "loop"
       /\ gt_err' = "SamplerError" =>
            /\ <<gt_best_val_loss, gt_best_config, gt_best_slot>>' =
                   <<gt_best_val_loss, gt_best_config, gt_best_slot>>
            /\ gt_err = "SamplerError" \/ gt_pc' = "config"]_vars

\* C18: in train_model the val_loss that scheduler.step and save_checkpoint
\* get at the end of an epoch is bound, and was computed by an evaluation of
\* that epoch of that configuration, also after a break on plateau.
C18_EpochEndUsesOwnValLoss ==
    /\ gt_pc = "epoch_end" =>
           /\ gt_val_loss \in Losses
           /\ gt_val_from = <<gt_cfg, gt_epoch>>
    /\ gt_err # "UnboundLocalError"
    /\ gt_sched.steps > 0 => gt_sched.last \in Losses
    /\ \A e \in DOMAIN gt_files :
           gt_files[e] # NoCheckpoint => gt_files[e].val_loss \in Losses

\* The iteration loop of a second epoch of a later configuration was left on
\* plateau, before its budget was used up.
C18_Witness ==
    /\ gt_pc = "epoch_end"
    /\ gt_cfg >= 2
    /\ gt_epoch >= 2
    /\ gt_plateau_count >= gt_patience
    /\ gt_iteration < gt_max_iters
    /\ gt_val_from = <<gt_cfg, gt_epoch>>

\* C19: when the entry point of Auto_Tune.py builds the model that receives
\* best_model.pt, the globals n_embd, n_layer and n_head are those of the
\* combination that wrote the file last.
C19_LoadedModelHasSavedShape ==
    /\ at_pc \in {"done", "loaded"} => AT_ShapesMatch(at_combo(at_slot.cfg), at_globals)
    /\ at_err # "RuntimeError"

\* the number of evaluations at the end of `log` that were not a new best
TrailingMisses(log) ==
    LET hits == {i \in 1..Len(log) : log[i]}
    IN  IF hits = {} THEN Len(log)
        ELSE Len(log) - (CHOOSE i \in hits : \A j \in hits : j <= i)

\* C20: in train_model plateau_count is between 0 and the patience and is the
\* number of latest consecutive evaluations of the configuration that did not
\* strictly beat the best loss of the whole search, across its epochs; a
\* configuration that never beat it is over after exactly patience
\* evaluations, all of its first epoch.
C20_PlateauCountIsTrailingMisses ==
    /\ 0 <= gt_plateau_count
    /\ gt_plateau_count <= gt_patience
    /\ gt_plateau_count = TrailingMisses(gt_evlog)
    /\ (gt_pc = "config" /\ gt_cfg > 0 /\ gt_epochs >= 1 /\ gt_count.improved = 0) =>
           /\ Len(gt_evlog) = gt_patience
           /\ gt_count.epochs = 1

\* A later configuration that never beat the best loss is over after patience
\* evaluations of its first epoch, with another epoch in its budget.
C20_Witness ==
    /\ gt_pc = "config"
    /\ gt_cfg >= 2
    /\ gt_epochs >= 2
    /\ gt_count.improved = 0
    /\ gt_count.epochs = 1
    /\ Len(gt_evlog) = gt_patience
    /\ gt_plateau_count = gt_patience

====
